---- MODULE Spec2Model ----
(***************************************************************************)
(* Marble (src/src/lib.rs): an object heap of immutable heap files with an *)
(* external page-location index (pt).  The model follows the source line   *)
(* by line: program counters are named after the source line a thread is   *)
(* about to execute.  The index (mod pt_lsm) is not part of the sources    *)
(* and is modelled from its contract in the specification, section 4.4;    *)
(* FilteredPageRewriteIter, whose body is todo!(), is modelled from        *)
(* section 4.8.                                                            *)
(***************************************************************************)
EXTENDS Integers, Sequences, FiniteSets, TLC

\* ------------------------------------------------------------------ bounds
MaxPid == 2
MaxPayloadLen == 1
MaxBatchLen == 2
MaxCalls == 3
MaxConcCalls == 2
MaxCrashes == 1
NumThreads == 2
\* decoded integers saturate here; larger than every length in the model
SatCap == 100000

\* ------------------------------------------------------- program constants
HEADER_SZ == 20
LOCATION_SZ == 8
file_compaction_percent == 60

\* Option::None of a byte string, and of a location
None == <<>>
NoLocation == -1
Threads == 1..NumThreads
Pids == 1..MaxPid
Min(a, b) == IF a < b THEN a ELSE b
Max(a, b) == IF a > b THEN a ELSE b

\* ------------------------------------------------------- byte conversions
RECURSIVE le_digits(_, _)
le_digits(n, k) == IF k = 0 THEN <<>> ELSE <<n % 256>> \o le_digits(n \div 256, k - 1)

Reverse(s) == [i \in 1..Len(s) |-> s[Len(s) + 1 - i]]

\* u64::to_le_bytes / u64::to_be_bytes
to_le_bytes(n) == le_digits(n, LOCATION_SZ)
to_be_bytes(n) == Reverse(to_le_bytes(n))

\* u64::from_le_bytes / u64::from_be_bytes (most significant byte first in
\* the recursion, saturating at SatCap)
RECURSIVE from_be_bytes(_)
from_be_bytes(b) ==
  IF Len(b) = 0 THEN 0
  ELSE Min(SatCap, 256 * from_be_bytes(SubSeq(b, 1, Len(b) - 1)) + b[Len(b)])
from_le_bytes(b) == from_be_bytes(Reverse(b))

PT_LSN_KEY == [i \in 1..LOCATION_SZ |-> 255]

\* crc32fast::Hasher is an external crate; the model keeps a 4-byte
\* checksum of the hashed bytes in its place (position-weighted sum).
RECURSIVE weighted_sum(_, _)
weighted_sum(b, i) ==
  IF i > Len(b) THEN 0 ELSE (i * (b[i] + 1) + weighted_sum(b, i + 1)) % 65536
crc32(b) == le_digits(weighted_sum(b, 1), 4)

\* ------------------------------------------------------------- file names
\* format!("{:0wx}", n): w hexadecimal digits, most significant first
RECURSIVE hex_digits(_, _)
hex_digits(n, w) == IF w = 0 THEN <<>> ELSE hex_digits(n \div 16, w - 1) \o <<n % 16>>

TmpPart == <<116, 109, 112>>   \* "tmp"

\* format!("{:02x}-{:016x}-{:01x}-{:01x}-{:016x}", shard, lsn, size_class, gen, capacity)
fname(shard, lsn, size_class, gen, capacity) ==
  << hex_digits(shard, 2), hex_digits(lsn, 16), hex_digits(size_class, 1),
     hex_digits(gen, 1), hex_digits(capacity, 16) >>
\* format!("{}-tmp", fname)
tmp_fname(name) == Append(name, TmpPart)

ParseError == -1
\* str::parse::<u64>(): the digits are read in base ten
RECURSIVE parse(_)
parse(s) ==
  IF Len(s) = 0 THEN 0
  ELSE IF s[Len(s)] > 9 THEN ParseError
  ELSE LET hi == parse(SubSeq(s, 1, Len(s) - 1))
       IN  IF hi = ParseError THEN ParseError ELSE Min(SatCap, 10 * hi + s[Len(s)])

\* ------------------------------------------------------------------ inputs
\* payloads of every length up to MaxPayloadLen (one payload per length)
Payloads == { [i \in 1..n |-> 170 + 17 * (n - 1)] : n \in 0..MaxPayloadLen }
Pages == Pids \X Payloads
\* batches of up to MaxBatchLen pages, in ascending order of object id
Batches ==
  { b \in UNION { [1..n -> Pages] : n \in 0..MaxBatchLen } :
      \A i \in 1..(Len(b) - 1) : b[i][1] < b[i + 1][1] }

\* ------------------------------------------------------------------- state
VARIABLES
  opened,         \* a Marble handle exists (open_with_config returned Ok)
  disk,           \* heap directory: file name -> file contents
  pt,             \* Marble.pt: in-memory state of the page-location index
  pt_disk,        \* durably flushed state of the page-location index
  files,          \* Marble.files: BTreeMap<DiskLocation, FileAndMetadata>
  next_file_lsn,  \* Marble.next_file_lsn
  files_lock,     \* RwLock around files: writer, readers, poisoned
  pt_lock,        \* RwLock around pt
  th,             \* per thread: program counter, arguments, locals, result
  calls,          \* number of API calls started (bounded by MaxCalls, MaxConcCalls)
  crashes,        \* number of crashes (bounded by MaxCrashes)
  hist            \* history of the run, read only by the properties

vars == << opened, disk, pt, pt_disk, files, next_file_lsn, files_lock,
           pt_lock, th, calls, crashes, hist >>

\* --------------------------------------------- page-location index (Lsm)
\* Lsm::get
Lsm_get(p, key) == IF key \in DOMAIN p THEN p[key] ELSE None

\* Lsm::write_batch: the entries are applied in order, None deletes
RECURSIVE Lsm_write_batch(_, _)
Lsm_write_batch(p, entries) ==
  IF Len(entries) = 0 THEN p
  ELSE LET key == entries[1][1]
           value == entries[1][2]
           q == IF value = None
                THEN [k \in DOMAIN p \ {key} |-> p[k]]
                ELSE [k \in DOMAIN p \cup {key} |-> IF k = key THEN value ELSE p[k]]
       IN  Lsm_write_batch(q, Tail(entries))

\* Lsm::recover: the last durably flushed state
Lsm_recover(durable) == durable

\* ------------------------------------------------------------ write_batch
\* the loop of lines 252-270 over the remaining pages
RECURSIVE encode(_, _, _)
encode(pages, lsn, acc) ==
  IF Len(pages) = 0 THEN acc
  ELSE LET pid == pages[1][1]
           raw_page == pages[1][2]
           address == lsn + Len(acc.buf)
           len_buf == to_le_bytes(Len(raw_page))
           pid_buf == to_le_bytes(pid)
           crc == crc32(len_buf \o pid_buf \o raw_page)
       IN  encode(Tail(pages), lsn,
                  [ buf |-> acc.buf \o crc \o pid_buf \o len_buf \o raw_page,
                    new_locations |-> Append(acc.new_locations, <<pid, address>>),
                    capacity |-> acc.capacity + 1 ])

\* lines 309-322: the batch handed to the index
pt_batch(new_locations, lsn) ==
  [ i \in 1..Len(new_locations) |->
      << to_be_bytes(new_locations[i][1]), to_be_bytes(new_locations[i][2]) >> ]
  \o << << PT_LSN_KEY, to_le_bytes(lsn) >> >>

\* write_all at offset 0 of a file opened with create(true) and no truncate
write_all(old, buf) ==
  IF Len(old) > Len(buf) THEN buf \o SubSeq(old, Len(buf) + 1, Len(old)) ELSE buf

Put(f, k, v) == [x \in DOMAIN f \cup {k} |-> IF x = k THEN v ELSE f[x]]
Del(f, ks) == [x \in DOMAIN f \ ks |-> f[x]]
Empty == [x \in {} |-> 0]

\* ------------------------------------------------------------------- read
\* files.range_mut(..=location).next_back()
locate(reg, location) ==
  LET below == { b \in DOMAIN reg : b <= location }
  IN  IF below = {} THEN NoLocation
      ELSE CHOOSE b \in below : \A c \in below : c <= b

\* lines 213-239: seek, read the 20-byte header, read len payload bytes
read_record(file, file_offset) ==
  IF file_offset + HEADER_SZ > Len(file) THEN [kind |-> "Err"]
  ELSE LET header_buf == SubSeq(file, file_offset + 1, file_offset + HEADER_SZ)
           len == from_le_bytes(SubSeq(header_buf, 13, 20))
       IN  IF file_offset + HEADER_SZ + len > Len(file) THEN [kind |-> "Err"]
           ELSE [ kind |-> "Ok",
                  page_buf |-> SubSeq(file, file_offset + HEADER_SZ + 1,
                                      file_offset + HEADER_SZ + len) ]

\* --------------------------------------------------------------- recovery
\* name.ends_with("tmp")
ends_with_tmp(name) == name[Len(name)] = TmpPart

\* lines 135-149: the five fields of a file name
parse_name(name) ==
  [ shard |-> parse(name[1]), lsn |-> parse(name[2]), size_class |-> parse(name[3]),
    generation |-> parse(name[4]), capacity |-> parse(name[5]) ]

\* .expect("encountered garbage filename in internal directory") panics
garbage(name) ==
  /\ ~ends_with_tmp(name)
  /\ Len(name) = 5
  /\ \E i \in 1..5 : parse(name[i]) = ParseError

\* lines 93-97
recovered_pt_lsn(p) ==
  IF Lsm_get(p, PT_LSN_KEY) # None THEN from_le_bytes(Lsm_get(p, PT_LSN_KEY)) ELSE 0

\* the entries open_with_config removes: lines 116-124 and 152-160
removed_on_open(d, w) ==
  { name \in DOMAIN d :
      \/ ends_with_tmp(name)
      \/ Len(name) = 5 /\ ~garbage(name) /\ parse_name(name).lsn > w }

\* the entries open_with_config registers: lines 162-183
kept_on_open(d, w) ==
  { name \in DOMAIN d :
      ~ends_with_tmp(name) /\ Len(name) = 5 /\ ~garbage(name) /\ parse_name(name).lsn <= w }

\* lines 172-181
file_and_metadata(d, name) ==
  [ file |-> d[name], shard |-> parse_name(name).shard,
    location |-> parse_name(name).lsn, path |-> name,
    capacity |-> parse_name(name).capacity, len |-> 0,
    size_class |-> parse_name(name).size_class,
    generation |-> parse_name(name).generation ]

RECURSIVE SetMax(_)
SetMax(S) == IF S = {} THEN 0 ELSE LET x == CHOOSE x \in S : TRUE IN Max(x, SetMax(S \ {x}))

\* the registries the directory scan can build: files.insert keeps, for each
\* location, the entry read_dir yielded last
recovered_files(d, w) ==
  LET kept == kept_on_open(d, w)
      locs == { parse_name(name).lsn : name \in kept }
  IN  { [ l \in locs |-> file_and_metadata(d, pick[l]) ] :
          pick \in { f \in [locs -> kept] : \A l \in locs : parse_name(f[l]).lsn = l } }

\* line 186
recovered_next_file_lsn(d, w) ==
  LET kept == kept_on_open(d, w)
      max_file_lsn == SetMax({ parse_name(name).lsn : name \in kept })
      max_file_size == SetMax({ Len(d[name]) : name \in kept })
  IN  max_file_lsn + max_file_size + 1

\* ------------------------------------------------------------ maintenance
\* lines 343-354, over the registry in ascending order of location
RECURSIVE scan(_, _, _)
scan(reg, todo, acc) ==
  IF todo = {} THEN acc
  ELSE LET l == CHOOSE x \in todo : \A y \in todo : x <= y
           meta == reg[l]
           len == meta.len
           cap == Max(meta.capacity, 1)
           next == IF len = 0
                   THEN [acc EXCEPT !.paths_to_remove = Append(@, meta.path)]
                   ELSE IF (len * 100) \div cap < file_compaction_percent
                   THEN [ paths_to_remove |-> Append(acc.paths_to_remove, meta.path),
                          locations_to_remove |-> Append(acc.locations_to_remove, meta.location),
                          files_to_defrag |-> Append(acc.files_to_defrag, meta.location) ]
                   ELSE acc
       IN  scan(reg, todo \ {l}, next)

\* FilteredPageRewriteIter: the records of the files to defrag that the
\* index currently maps into that file, in ascending order of object id
RECURSIVE rewrite_pages(_, _, _)
rewrite_pages(p, reg, keys) ==
  IF keys = {} THEN <<>>
  ELSE LET key == CHOOSE k \in keys : \A j \in keys : from_be_bytes(k) <= from_be_bytes(j)
           location == from_be_bytes(p[key])
           base == locate(reg, location)
           rec == read_record(reg[base].file, location - base)
       IN  << << from_be_bytes(key), rec.page_buf >> >> \o rewrite_pages(p, reg, keys \ {key})

page_rewrite_iter(p, reg, files_to_defrag) ==
  LET defrag == { files_to_defrag[i] : i \in 1..Len(files_to_defrag) }
      keys == { k \in DOMAIN p \ {PT_LSN_KEY} :
                  /\ locate(reg, from_be_bytes(p[k])) \in defrag
                  /\ read_record(reg[locate(reg, from_be_bytes(p[k]))].file,
                                 from_be_bytes(p[k]) - locate(reg, from_be_bytes(p[k]))).kind = "Ok" }
  IN  rewrite_pages(p, reg, keys)

\* ------------------------------------------------------ threads and locks
NoResult == [kind |-> "None", page_buf |-> <<>>]
Ok(bytes) == [kind |-> "Ok", page_buf |-> bytes]
Err == [kind |-> "Err", page_buf |-> <<>>]
Panic == [kind |-> "Panic", page_buf |-> <<>>]

Local0 ==
  [ pc |-> "idle", op |-> "none", pid |-> 0, pages |-> <<>>, lsn |-> 0, buf |-> <<>>,
    new_locations |-> <<>>, capacity |-> 0, in_maintenance |-> FALSE,
    paths_to_remove |-> <<>>, locations_to_remove |-> <<>>, location |-> 0,
    result |-> NoResult,
    expect |-> NoResult,   \* what the read would have returned run alone at its call
    overlap |-> FALSE ]    \* the read ran while a maintenance call was in progress

\* the thread's record once the call has ended with res
Returned(t, res) ==
  [Local0 EXCEPT !.op = th[t].op, !.pid = th[t].pid, !.pages = th[t].pages, !.result = res,
                 !.expect = th[t].expect, !.overlap = th[t].overlap]

Unlocked == [w |-> 0, r |-> {}, poisoned |-> FALSE]

\* what read(pid) returns when run alone in the current state (lines 196-240)
read_result(reg, p, lock, pid) ==
  IF lock.poisoned THEN Panic
  ELSE IF Lsm_get(p, to_be_bytes(pid)) = None THEN Panic
  ELSE LET location == from_be_bytes(Lsm_get(p, to_be_bytes(pid)))
           base == locate(reg, location)
       IN  IF base = NoLocation THEN Panic
           ELSE LET rec == read_record(reg[base].file, location - base)
                IN  IF rec.kind = "Ok" THEN Ok(rec.page_buf) ELSE Err

\* ---------------------------------------------------------------- history
NoSnap ==
  [ valid |-> FALSE, disk |-> <<>>, files |-> <<>>, pt |-> <<>>, next_file_lsn |-> 0,
    poisoned |-> FALSE, reads |-> <<>> ]
Snap ==
  [ valid |-> TRUE, disk |-> disk, files |-> files, pt |-> pt,
    next_file_lsn |-> next_file_lsn, poisoned |-> files_lock.poisoned,
    reads |-> [pid \in Pids |-> read_result(files, pt, files_lock, pid)] ]

Hist0 ==
  [ session |-> {},        \* ids written by write_batch calls that returned Ok since open
    acked |-> <<>>,        \* id -> payload of the last write_batch that returned Ok
    reserved |-> <<>>,     \* [lsn, size] of every write_batch since open
    accepted |-> {},       \* base LSNs of the batches the index accepted since open
    published |-> {},      \* [lsn, size] of the batches whose file was renamed since open
    assigned |-> {},       \* [lsn, size] of the batches published before the last crash
    quiet |-> TRUE,        \* no write_batch or maintenance has started since open
    crash |-> <<>>,        \* th at the moment of the last crash
    pre |-> NoSnap,        \* the store when the running (or last) call started
    prev_maint |-> NoSnap, \* the store as the directly preceding maintenance left it
    last_maint |-> NoSnap ]\* the store as the last maintenance left it, if it returned Ok

\* ------------------------------------------------------------------- Init
\* Marble::open on an empty directory
Init ==
  /\ opened = TRUE
  /\ disk = <<>>
  /\ pt = Lsm_recover(<<>>)
  /\ pt_disk = <<>>
  /\ files \in recovered_files(<<>>, recovered_pt_lsn(<<>>))
  /\ next_file_lsn = recovered_next_file_lsn(<<>>, recovered_pt_lsn(<<>>))
  /\ files_lock = Unlocked
  /\ pt_lock = Unlocked
  /\ th = [t \in Threads |-> Local0]
  /\ calls = 0
  /\ crashes = 0
  /\ hist = Hist0

\* ------------------------------------------------------------------- read
call_read(t, pid, limit) ==
  /\ opened /\ th[t].pc = "idle" /\ calls < limit
  /\ th' = [th EXCEPT ![t] =
              [Local0 EXCEPT !.pc = "r197", !.op = "read", !.pid = pid,
                             !.expect = read_result(files, pt, files_lock, pid),
                             !.overlap = \E u \in Threads : /\ th[u].op = "maintenance"
                                                            /\ th[u].pc # "idle"]]
  /\ calls' = calls + 1
  /\ hist' = [hist EXCEPT !.pre = Snap, !.last_maint = NoSnap]
  /\ UNCHANGED << opened, disk, pt, pt_disk, files, next_file_lsn, files_lock, pt_lock, crashes >>

\* line 197: self.files.write().unwrap()
read_197(t) ==
  /\ th[t].pc = "r197"
  /\ files_lock.w = 0 /\ files_lock.r = {}
  /\ IF files_lock.poisoned
     THEN /\ th' = [th EXCEPT ![t] = Returned(t, Panic)]
          /\ UNCHANGED files_lock
     ELSE /\ th' = [th EXCEPT ![t].pc = "r202"]
          /\ files_lock' = [files_lock EXCEPT !.w = t]
  /\ UNCHANGED << opened, disk, pt, pt_disk, files, next_file_lsn, pt_lock, calls, crashes, hist >>

\* lines 202-207: the index lookup under the pt read lock, unwrapped
read_202(t) ==
  /\ th[t].pc = "r202"
  /\ pt_lock.w = 0
  /\ LET lsn_bytes == Lsm_get(pt, to_be_bytes(th[t].pid))
     IN  IF lsn_bytes = None
         THEN /\ th' = [th EXCEPT ![t] = Returned(t, Panic)]
              /\ files_lock' = [Unlocked EXCEPT !.poisoned = TRUE]
         ELSE /\ th' = [th EXCEPT ![t].pc = "r208", ![t].location = from_be_bytes(lsn_bytes)]
              /\ UNCHANGED files_lock
  /\ UNCHANGED << opened, disk, pt, pt_disk, files, next_file_lsn, pt_lock, calls, crashes, hist >>

\* lines 208-239: range lookup in the registry, seek and read
read_208(t) ==
  /\ th[t].pc = "r208"
  /\ LET base_location == locate(files, th[t].location)
     IN  IF base_location = NoLocation
         THEN /\ th' = [th EXCEPT ![t] = Returned(t, Panic)]
              /\ files_lock' = [Unlocked EXCEPT !.poisoned = TRUE]
         ELSE LET rec == read_record(files[base_location].file,
                                     th[t].location - base_location)
              IN  /\ th' = [th EXCEPT ![t] =
                              Returned(t, IF rec.kind = "Ok" THEN Ok(rec.page_buf) ELSE Err)]
                  /\ files_lock' = [files_lock EXCEPT !.w = 0]
  /\ UNCHANGED << opened, disk, pt, pt_disk, files, next_file_lsn, pt_lock, calls, crashes, hist >>

\* ------------------------------------------------------------ write_batch
call_write_batch(t, pages, limit) ==
  /\ opened /\ th[t].pc = "idle" /\ calls < limit
  /\ th' = [th EXCEPT ![t] = [Local0 EXCEPT !.pc = "w244", !.op = "write_batch",
                                            !.pages = pages]]
  /\ calls' = calls + 1
  /\ hist' = [hist EXCEPT !.quiet = FALSE, !.pre = Snap, !.last_maint = NoSnap]
  /\ UNCHANGED << opened, disk, pt, pt_disk, files, next_file_lsn, files_lock, pt_lock, crashes >>

\* lines 244-270: load the base lsn, encode the pages
write_batch_244(t) ==
  /\ th[t].pc = "w244"
  /\ LET lsn == next_file_lsn
         e == encode(th[t].pages, lsn, [buf |-> <<>>, new_locations |-> <<>>, capacity |-> 0])
     IN  /\ th' = [th EXCEPT ![t].pc = "w272", ![t].lsn = lsn, ![t].buf = e.buf,
                             ![t].new_locations = e.new_locations,
                             ![t].capacity = e.capacity]
         /\ hist' = [hist EXCEPT !.reserved = Append(@, [lsn |-> lsn, size |-> Len(e.buf)])]
  /\ UNCHANGED << opened, disk, pt, pt_disk, files, next_file_lsn, files_lock, pt_lock,
                  calls, crashes >>

\* line 272: self.next_file_lsn += buf.len() as u64 + 1, an unsynchronised
\* read-modify-write: the addend is applied to the current value or to the
\* value loaded at line 244
write_batch_272(t) ==
  /\ th[t].pc = "w272"
  /\ \E old \in {next_file_lsn, th[t].lsn} :
       next_file_lsn' = old + Len(th[t].buf) + 1
  /\ th' = [th EXCEPT ![t].pc = "w287"]
  /\ UNCHANGED << opened, disk, pt, pt_disk, files, files_lock, pt_lock, calls, crashes, hist >>

\* lines 274-295: create the temp file, write the buffer, sync
write_batch_287(t) ==
  /\ th[t].pc = "w287"
  /\ LET tmp_path == tmp_fname(fname(0, th[t].lsn, 0, 0, th[t].capacity))
         old == IF tmp_path \in DOMAIN disk THEN disk[tmp_path] ELSE <<>>
     IN  disk' = Put(disk, tmp_path, write_all(old, th[t].buf))
  /\ th' = [th EXCEPT ![t].pc = "w297", ![t].buf = <<>>]
  /\ UNCHANGED << opened, pt, pt_disk, files, next_file_lsn, files_lock, pt_lock, calls,
                  crashes, hist >>

\* lines 274-282: the final name of the heap file thread t is writing
new_path_of(t) == fname(0, th[t].lsn, 0, 0, th[t].capacity)

\* lines 297-305: rename (an io error when the temp file is gone, which the
\* ? operator returns), open the new file, sync the directory; the new file
\* is not inserted into self.files
write_batch_297(t) ==
  /\ th[t].pc = "w297"
  /\ LET new_path == fname(0, th[t].lsn, 0, 0, th[t].capacity)
         tmp_path == tmp_fname(new_path)
     IN  IF tmp_path \in DOMAIN disk
         THEN /\ disk' = Put(Del(disk, {tmp_path}), new_path, disk[tmp_path])
              /\ th' = [th EXCEPT ![t].pc = "w324"]
         ELSE /\ UNCHANGED disk
              /\ th' = [th EXCEPT ![t] =
                          IF th[t].in_maintenance
                          THEN [Returned(t, Err) EXCEPT !.op = "maintenance", !.pages = <<>>]
                          ELSE Returned(t, Err)]
  /\ hist' = IF th'[t].pc = "w324"
             THEN [hist EXCEPT !.published =
                           @ \cup {[lsn |-> th[t].lsn, size |-> Len(disk'[new_path_of(t)])]}]
             ELSE IF th[t].in_maintenance
             THEN [hist EXCEPT !.last_maint = NoSnap]
             ELSE hist
  /\ UNCHANGED << opened, pt, pt_disk, files, next_file_lsn, files_lock, pt_lock, calls,
                  crashes >>

\* lines 309-325: take the pt write lock, pt.write_batch
write_batch_324(t) ==
  /\ th[t].pc = "w324"
  /\ pt_lock.w = 0 /\ pt_lock.r = {}
  /\ pt_lock' = [pt_lock EXCEPT !.w = t]
  /\ pt' = Lsm_write_batch(pt, pt_batch(th[t].new_locations, th[t].lsn))
  /\ th' = [th EXCEPT ![t].pc = "w326"]
  /\ hist' = [hist EXCEPT !.accepted = @ \cup {th[t].lsn}]
  /\ UNCHANGED << opened, disk, pt_disk, files, next_file_lsn, files_lock, calls, crashes >>

\* the object ids of a batch
ids(pages) == { pages[i][1] : i \in 1..Len(pages) }

\* the payload each id of a batch ends up with
RECURSIVE last_payloads(_, _)
last_payloads(pages, acc) ==
  IF Len(pages) = 0 THEN acc
  ELSE last_payloads(Tail(pages), Put(acc, pages[1][1], pages[1][2]))

\* lines 326-329: pt.flush, drop the lock, Ok(())
write_batch_326(t) ==
  /\ th[t].pc = "w326"
  /\ pt_disk' = pt
  /\ pt_lock' = [pt_lock EXCEPT !.w = 0]
  /\ IF th[t].in_maintenance
     THEN /\ th' = [th EXCEPT ![t].pc = "m370", ![t].new_locations = <<>>]
          /\ UNCHANGED hist
     ELSE /\ th' = [th EXCEPT ![t] = Returned(t, Ok(<<>>))]
          /\ hist' = [hist EXCEPT
                        !.session = @ \cup DOMAIN last_payloads(th[t].pages, <<>>),
                        !.acked = last_payloads(th[t].pages, @)]
  /\ UNCHANGED << opened, disk, pt, files, next_file_lsn, files_lock, calls, crashes >>

\* --------------------------------------------------- write_batch, io errors
\* write_batch returns an io error through the ? operator; inside maintenance
\* the ? of line 366 hands it on
write_batch_fails(t) ==
  /\ th' = [th EXCEPT ![t] =
              IF th[t].in_maintenance
              THEN [Returned(t, Err) EXCEPT !.op = "maintenance", !.pages = <<>>]
              ELSE Returned(t, Err)]
  /\ hist' = IF th[t].in_maintenance THEN [hist EXCEPT !.last_maint = NoSnap] ELSE hist

\* lines 287-294 fail: the open (no temp file), write_all (a temp file with
\* nothing of the buffer in it) or sync_all (the whole buffer written)
write_batch_287_io_error(t) ==
  /\ th[t].pc = "w287"
  /\ LET tmp_path == tmp_fname(fname(0, th[t].lsn, 0, 0, th[t].capacity))
         old == IF tmp_path \in DOMAIN disk THEN disk[tmp_path] ELSE <<>>
     IN  disk' \in { disk, Put(disk, tmp_path, old),
                     Put(disk, tmp_path, write_all(old, th[t].buf)) }
  /\ write_batch_fails(t)
  /\ UNCHANGED << opened, pt, pt_disk, files, next_file_lsn, files_lock, pt_lock, calls,
                  crashes >>

\* lines 297-305 fail: the rename (nothing renamed), or the open of the new
\* file or the directory sync (the file already has its final name)
write_batch_297_io_error(t) ==
  /\ th[t].pc = "w297"
  /\ LET new_path == fname(0, th[t].lsn, 0, 0, th[t].capacity)
         tmp_path == tmp_fname(new_path)
     IN  /\ tmp_path \in DOMAIN disk
         /\ disk' \in { disk, Put(Del(disk, {tmp_path}), new_path, disk[tmp_path]) }
  /\ write_batch_fails(t)
  /\ UNCHANGED << opened, pt, pt_disk, files, next_file_lsn, files_lock, pt_lock, calls,
                  crashes >>

\* line 325 fails: pt.write_batch applies nothing, the guard is dropped
write_batch_324_io_error(t) ==
  /\ th[t].pc = "w324"
  /\ pt_lock.w = 0 /\ pt_lock.r = {}
  /\ write_batch_fails(t)
  /\ UNCHANGED << opened, disk, pt, pt_disk, files, next_file_lsn, files_lock, pt_lock,
                  calls, crashes >>

\* line 326 fails: pt.flush persists nothing, the batch accepted at line 325
\* stays in the index, the guard is dropped
write_batch_326_io_error(t) ==
  /\ th[t].pc = "w326"
  /\ pt_lock' = [pt_lock EXCEPT !.w = 0]
  /\ write_batch_fails(t)
  /\ UNCHANGED << opened, disk, pt, pt_disk, files, next_file_lsn, files_lock, calls,
                  crashes >>

\* ------------------------------------------------------------ maintenance
call_maintenance(t, limit) ==
  /\ opened /\ th[t].pc = "idle" /\ calls < limit
  /\ th' = [u \in Threads |->
              IF u = t THEN [Local0 EXCEPT !.pc = "m342", !.op = "maintenance"]
              ELSE IF th[u].op = "read" /\ th[u].pc # "idle"
                   THEN [th[u] EXCEPT !.overlap = TRUE]
                   ELSE th[u]]
  /\ calls' = calls + 1
  /\ hist' = [hist EXCEPT !.quiet = FALSE, !.pre = Snap, !.prev_maint = hist.last_maint]
  /\ UNCHANGED << opened, disk, pt, pt_disk, files, next_file_lsn, files_lock, pt_lock, crashes >>

\* the thread's record and the history once maintenance has ended with res
\* (no step that ends maintenance changes the store)
maintenance_returns(t, res) ==
  /\ th' = [th EXCEPT ![t] = [Returned(t, res) EXCEPT !.op = "maintenance", !.pages = <<>>]]
  /\ hist' = [hist EXCEPT !.last_maint =
                IF res.kind = "Ok" THEN [Snap EXCEPT !.reads = <<>>] ELSE NoSnap]

\* lines 342-354: take the registry read lock and select the files
maintenance_342(t) ==
  /\ th[t].pc = "m342"
  /\ files_lock.w = 0
  /\ IF files_lock.poisoned
     THEN /\ maintenance_returns(t, Panic)
          /\ UNCHANGED files_lock
     ELSE LET sel == scan(files, DOMAIN files,
                          [ paths_to_remove |-> <<>>, locations_to_remove |-> <<>>,
                            files_to_defrag |-> <<>> ])
          IN  /\ th' = [th EXCEPT ![t].pc = "m356",
                                  ![t].paths_to_remove = sel.paths_to_remove,
                                  ![t].locations_to_remove = sel.locations_to_remove]
              /\ files_lock' = [files_lock EXCEPT !.r = @ \cup {t}]
              /\ UNCHANGED hist
  /\ UNCHANGED << opened, disk, pt, pt_disk, files, next_file_lsn, pt_lock, calls, crashes >>

\* maintenance_356 had it called write_batch without drop(files)
maintenance_356_keeps_files(t) ==
  /\ th[t].pc = "m356"
  /\ pt_lock.w = 0
  /\ th' = [th EXCEPT ![t].pc = "w244", ![t].in_maintenance = TRUE,
                      ![t].pages = page_rewrite_iter(pt, files, th[t].locations_to_remove)]
  /\ UNCHANGED << opened, disk, pt, pt_disk, files, next_file_lsn, files_lock, pt_lock, calls,
                  crashes, hist >>

\* lines 356-366: under the pt read lock collect the batch, drop both locks
\* and call write_batch (files_to_defrag holds the same files as
\* locations_to_remove)
maintenance_356(t) ==
  /\ th[t].pc = "m356"
  /\ pt_lock.w = 0
  /\ th' = [th EXCEPT ![t].pc = "w244", ![t].in_maintenance = TRUE,
                      ![t].pages = page_rewrite_iter(pt, files, th[t].locations_to_remove)]
  /\ files_lock' = [files_lock EXCEPT !.r = @ \ {t}]
  /\ UNCHANGED << opened, disk, pt, pt_disk, files, next_file_lsn, pt_lock, calls, crashes, hist >>

\* maintenance_370 had it also dropped the registry entries of the files
\* whose paths it is about to unlink
maintenance_370_drops_unlinked(t) ==
  /\ th[t].pc = "m370"
  /\ files_lock.w = 0 /\ files_lock.r = {}
  /\ IF files_lock.poisoned
     THEN /\ maintenance_returns(t, Panic)
          /\ UNCHANGED files
     ELSE /\ files' = Del(files, { base \in DOMAIN files :
                                     \E i \in 1..Len(th[t].paths_to_remove) :
                                       files[base].path = th[t].paths_to_remove[i] })
          /\ th' = [th EXCEPT ![t].pc = "m378", ![t].locations_to_remove = <<>>]
          /\ UNCHANGED hist
  /\ UNCHANGED << opened, disk, pt, pt_disk, next_file_lsn, files_lock, pt_lock, calls, crashes >>

\* lines 370-376: take the registry write lock, remove the defragged files
maintenance_370(t) ==
  /\ th[t].pc = "m370"
  /\ files_lock.w = 0 /\ files_lock.r = {}
  /\ IF files_lock.poisoned
     THEN /\ maintenance_returns(t, Panic)
          /\ UNCHANGED files
     ELSE /\ files' = Del(files, { th[t].locations_to_remove[i] :
                                     i \in 1..Len(th[t].locations_to_remove) })
          /\ th' = [th EXCEPT ![t].pc = "m378", ![t].locations_to_remove = <<>>]
          /\ UNCHANGED hist
  /\ UNCHANGED << opened, disk, pt, pt_disk, next_file_lsn, files_lock, pt_lock, calls, crashes >>

\* lines 378-382: one turn of the loop over paths_to_remove, or Ok(())
maintenance_378(t) ==
  /\ th[t].pc = "m378"
  /\ IF Len(th[t].paths_to_remove) = 0
     THEN /\ maintenance_returns(t, Ok(<<>>))
          /\ UNCHANGED disk
     ELSE LET path == Head(th[t].paths_to_remove)
          IN  IF path \in DOMAIN disk
              THEN /\ disk' = Del(disk, {path})
                   /\ th' = [th EXCEPT ![t].paths_to_remove = Tail(@)]
                   /\ UNCHANGED hist
              ELSE /\ maintenance_returns(t, Err)
                   /\ UNCHANGED disk
  /\ UNCHANGED << opened, pt, pt_disk, files, next_file_lsn, files_lock, pt_lock, calls, crashes >>

\* ------------------------------------------------------ crash and reopen
\* the process dies: memory is lost, the directory stays as it is, and an
\* index batch that was accepted but not flushed lands whole or not at all
crash ==
  /\ opened /\ crashes < MaxCrashes
  /\ opened' = FALSE
  /\ pt_disk' \in {pt_disk, pt}
  /\ pt' = <<>>
  /\ files' = <<>>
  /\ next_file_lsn' = 0
  /\ files_lock' = Unlocked
  /\ pt_lock' = Unlocked
  /\ th' = [t \in Threads |-> Local0]
  /\ crashes' = crashes + 1
  /\ hist' = [Hist0 EXCEPT !.acked = hist.acked, !.crash = th,
                           !.assigned = hist.assigned \cup hist.published]
  /\ UNCHANGED << disk, calls >>

\* open_with_config returns Ok (lines 81-194)
open_with_config ==
  /\ ~opened
  /\ \A name \in DOMAIN disk : ~garbage(name)
  /\ LET w == recovered_pt_lsn(Lsm_recover(pt_disk))
     IN  /\ pt' = Lsm_recover(pt_disk)
         /\ files' \in recovered_files(disk, w)
         /\ next_file_lsn' = recovered_next_file_lsn(disk, w)
         /\ disk' = Del(disk, removed_on_open(disk, w))
  /\ opened' = TRUE
  /\ UNCHANGED << pt_disk, files_lock, pt_lock, th, calls, crashes, hist >>

\* open_with_config panics on a file name it cannot parse, after removing
\* the entries read_dir yielded before it
open_panics ==
  /\ ~opened
  /\ \E name \in DOMAIN disk : garbage(name)
  /\ \E gone \in SUBSET removed_on_open(disk, recovered_pt_lsn(Lsm_recover(pt_disk))) :
       disk' = Del(disk, gone)
  /\ UNCHANGED << opened, pt, pt_disk, files, next_file_lsn, files_lock, pt_lock, th,
                  calls, crashes, hist >>

\* -------------------------------------------------------- specifications
\* one step of thread t, which starts a call only while fewer than limit
\* calls have been started
step(t, limit) ==
  \/ \E pid \in Pids : call_read(t, pid, limit)
  \/ read_197(t)
  \/ read_202(t)
  \/ read_208(t)
  \/ \E pages \in Batches : call_write_batch(t, pages, limit)
  \/ write_batch_244(t)
  \/ write_batch_272(t)
  \/ write_batch_287(t)
  \/ write_batch_297(t)
  \/ write_batch_324(t)
  \/ write_batch_326(t)
  \/ call_maintenance(t, limit)
  \/ maintenance_342(t)
  \/ maintenance_356(t)
  \/ maintenance_370(t)
  \/ maintenance_378(t)

\* one caller; crashes and reopening
Next ==
  \/ step(1, MaxCalls)
  \/ crash
  \/ open_with_config
  \/ open_panics

Spec == Init /\ [][Next]_vars

\* callers on parallel threads of one open store
NextConc == \E t \in Threads : step(t, MaxConcCalls)

SpecConc == Init /\ [][NextConc]_vars

\* a store reopened after one write_batch that gave every id a page: the
\* registry holds the batch's heap file
InitReopened ==
  \E pages \in { b \in Batches : ids(b) = Pids } :
    LET lsn == recovered_next_file_lsn(<<>>, recovered_pt_lsn(<<>>))
        e == encode(pages, lsn, [buf |-> <<>>, new_locations |-> <<>>, capacity |-> 0])
        d == Put(<<>>, fname(0, lsn, 0, 0, e.capacity), write_all(<<>>, e.buf))
        p == Lsm_write_batch(<<>>, pt_batch(e.new_locations, lsn))
        w == recovered_pt_lsn(Lsm_recover(p))
    IN  /\ opened = TRUE
        /\ disk = Del(d, removed_on_open(d, w))
        /\ pt = Lsm_recover(p)
        /\ pt_disk = p
        /\ files \in recovered_files(d, w)
        /\ next_file_lsn = recovered_next_file_lsn(d, w)
        /\ files_lock = Unlocked
        /\ pt_lock = Unlocked
        /\ th = [t \in Threads |-> Local0]
        /\ calls = 0
        /\ crashes = 0
        /\ hist = [Hist0 EXCEPT !.acked = last_payloads(pages, <<>>)]

\* one caller of a reopened store whose file system and index can fail
NextIoErrors ==
  \/ step(1, MaxConcCalls)
  \/ write_batch_287_io_error(1)
  \/ write_batch_297_io_error(1)
  \/ write_batch_324_io_error(1)
  \/ write_batch_326_io_error(1)

SpecIoErrors == InitReopened /\ [][NextIoErrors]_vars

\* one byte of a registered heap file is damaged in place (every bit of it
\* flipped), seen through the open handle and through the path; the faults
\* are counted with the crashes, at most MaxCrashes of them
flip_byte ==
  /\ opened /\ crashes < MaxCrashes
  /\ \A t \in Threads : th[t].pc = "idle"
  /\ \E base \in DOMAIN files : \E i \in 1..Len(files[base].file) :
       LET damaged == [files[base].file EXCEPT ![i] = 255 - @]
       IN  /\ files' = [files EXCEPT ![base].file = damaged]
           /\ disk' = IF files[base].path \in DOMAIN disk
                      THEN [disk EXCEPT ![files[base].path] = damaged]
                      ELSE disk
  /\ crashes' = crashes + 1
  /\ UNCHANGED << opened, pt, pt_disk, next_file_lsn, files_lock, pt_lock, th, calls, hist >>

\* one reader of a reopened store whose heap file gets damaged
NextDamage ==
  \/ \E pid \in Pids : call_read(1, pid, MaxCalls)
  \/ read_197(1)
  \/ read_202(1)
  \/ read_208(1)
  \/ flip_byte

SpecDamage == InitReopened /\ [][NextDamage]_vars

\* the reopened store in which every page is empty
InitLocks == InitReopened /\ \A pid \in Pids : hist.acked[pid] = <<>>

\* thread u holds the lock
holds(u, lock) == lock.w = u \/ u \in lock.r

\* thread t is at a lock acquisition (lines 197, 202, 324, 342, 356, 370)
\* that cannot go through while thread u holds what it holds
waits_for(t, u) ==
  \/ th[t].pc \in {"r197", "m370"} /\ holds(u, files_lock)
  \/ th[t].pc = "m342" /\ files_lock.w = u
  \/ th[t].pc \in {"r202", "m356"} /\ pt_lock.w = u
  \/ th[t].pc = "w324" /\ holds(u, pt_lock)

\* thread t is inside a call and its next step is not a lock it has to
\* wait for
runnable(t) == th[t].pc # "idle" /\ ~\E u \in Threads : waits_for(t, u)

\* the next step of the call thread t is in
run(t) ==
  \/ read_197(t)
  \/ read_202(t)
  \/ read_208(t)
  \/ write_batch_244(t)
  \/ write_batch_272(t)
  \/ write_batch_287(t)
  \/ write_batch_297(t)
  \/ write_batch_324(t)
  \/ write_batch_326(t)
  \/ maintenance_342(t)
  \/ maintenance_356(t)
  \/ maintenance_370(t)
  \/ maintenance_378(t)

\* one step of thread t; its write_batch calls write one record
step_locks(t, limit) ==
  \/ \E pid \in Pids : call_read(t, pid, limit)
  \/ \E pages \in { b \in Batches : Len(b) = 1 } : call_write_batch(t, pages, limit)
  \/ call_maintenance(t, limit)
  \/ run(t)

NextLocks == \E t \in Threads : step_locks(t, MaxConcCalls)

\* callers on parallel threads of a reopened store; a thread inside a call
\* that does not have to wait for a lock is scheduled again and again: this
\* is WF_vars(run(t)) written out, with runnable(t) for ENABLED <<run(t)>>_vars
\* (the steps of run(t) have no other guard than the pc and the locks)
SpecLocks ==
  /\ InitLocks /\ [][NextLocks]_vars
  /\ \A t \in Threads : []<>(~runnable(t)) \/ []<><<run(t)>>_vars

\* readers and maintenance on parallel threads
step_read_maintenance(t, limit) ==
  \/ \E pid \in Pids : call_read(t, pid, limit)
  \/ read_197(t)
  \/ read_202(t)
  \/ read_208(t)
  \/ write_batch_244(t)
  \/ write_batch_272(t)
  \/ write_batch_287(t)
  \/ write_batch_297(t)
  \/ write_batch_324(t)
  \/ write_batch_326(t)
  \/ call_maintenance(t, limit)
  \/ maintenance_342(t)
  \/ maintenance_356(t)
  \/ maintenance_370(t)
  \/ maintenance_378(t)

NextReadMaintenance == \E t \in Threads : step_read_maintenance(t, MaxConcCalls)

SpecReadMaintenance == InitReopened /\ [][NextReadMaintenance]_vars

\* ------------------------------------------------------------- properties
\* a call of thread t has ended and nothing has run since
returned(t, op) == th[t].pc = "idle" /\ th[t].op = op

\* C1: in one open store, a read (started with the registry lock intact) of
\* an id that some write_batch that returned Ok has written returns the
\* payload of the last such batch.
C1_ReadYourWrites ==
  \A t \in Threads :
    (returned(t, "read") /\ ~hist.pre.poisoned /\ th[t].pid \in hist.session)
      => th[t].result = Ok(hist.acked[th[t].pid])


\* the store has been reopened, and nothing written since, after a crash
\* that hit a write_batch call between the rename and the index update
reopened_after_rename_crash ==
  /\ opened /\ hist.quiet /\ crashes > 0
  /\ hist.crash[1].pc = "w324" /\ ~hist.crash[1].in_maintenance

\* C2: after such a crash and reopening, the heap file of the interrupted
\* batch is gone, a read of an id only that batch wrote returns NotFound,
\* and the ids of earlier completed batches read back their payloads.
C2_CrashAtomicity ==
  reopened_after_rename_crash =>
    /\ fname(0, hist.crash[1].lsn, 0, 0, hist.crash[1].capacity) \notin DOMAIN disk
    /\ \A t \in Threads :
         (returned(t, "read") /\ ~hist.pre.poisoned) =>
           IF th[t].pid \in DOMAIN hist.acked
           THEN th[t].result = Ok(hist.acked[th[t].pid])
           ELSE th[t].pid \in ids(hist.crash[1].pages) => th[t].result.kind = "NotFound"

\* open_with_config has returned and no write_batch or maintenance has run
recovered == opened /\ hist.quiet

object_keys(p) == DOMAIN p \ {PT_LSN_KEY}

\* the index entry of key points at a record of that object inside a
\* registered heap file that is still in the heap directory
entry_is_live(p, reg, d, key) ==
  LET location == from_be_bytes(p[key])
      base == locate(reg, location)
      offset == location - base
  IN  /\ base # NoLocation
      /\ reg[base].path \in DOMAIN d
      /\ offset + HEADER_SZ <= Len(reg[base].file)
      /\ from_le_bytes(SubSeq(reg[base].file, offset + 5, offset + 12)) = from_be_bytes(key)

\* C3: after a crash and recovery, every object-id key of the index maps to
\* a location inside a registered heap file that exists on disk, and the
\* record there carries that id.
C3_NoDanglingEntries ==
  (recovered /\ crashes > 0) =>
    \A key \in object_keys(pt) : entry_is_live(pt, files, disk, key)

\* the base LSN a file name carries: its second field, sixteen hex digits
RECURSIVE hex_value(_)
hex_value(s) ==
  IF Len(s) = 0 THEN 0 ELSE 16 * hex_value(SubSeq(s, 1, Len(s) - 1)) + s[Len(s)]

\* C4: after recovery every heap file left in the directory and in the
\* registry has a base LSN at or below the watermark stored under PT_LSN_KEY.
C4_SurvivorsBelowWatermark ==
  recovered =>
    /\ \A name \in DOMAIN disk : hex_value(name[2]) <= recovered_pt_lsn(pt)
    /\ \A base \in DOMAIN files : hex_value(files[base].path[2]) <= recovered_pt_lsn(pt)

RECURSIVE Sum(_, _)
Sum(f, S) == IF S = {} THEN 0 ELSE LET x == CHOOSE x \in S : TRUE IN f[x] + Sum(f, S \ {x})

\* the index entries whose location the registry resolves to the file at base
entries_in(p, reg, base) ==
  { key \in object_keys(p) : locate(reg, from_be_bytes(p[key])) = base }

\* C7: after recovery the live counters add up to the number of object-id
\* keys of the index, and each counter is the number of entries in its file.
C7_LiveMatchesIndex ==
  recovered =>
    /\ Sum([base \in DOMAIN files |-> files[base].len], DOMAIN files)
         = Cardinality(object_keys(pt))
    /\ \A base \in DOMAIN files :
         files[base].len = Cardinality(entries_in(pt, files, base))

\* C5: any two write_batch calls on one open store reserve different base
\* LSNs and disjoint ranges [base, base + encoded_size].
C5_DisjointReservations ==
  \A i, j \in 1..Len(hist.reserved) :
    i < j =>
      LET a == hist.reserved[i]
          b == hist.reserved[j]
      IN  /\ a.lsn # b.lsn
          /\ a.lsn + a.size < b.lsn \/ b.lsn + b.size < a.lsn

\* the fragmentation maintenance computes for a registry entry (lines 344-349)
below_threshold(meta) ==
  (meta.len * 100) \div Max(meta.capacity, 1) < file_compaction_percent

\* C6: maintenance, run with no concurrent write, leaves the result of every
\* read and the set of object-id keys as they were when it was called, and
\* deletes no heap file that holds a record the index still points to.
C6_MaintenancePreservesContents ==
  \A t \in Threads :
    (returned(t, "maintenance") /\ th[t].result.kind = "Ok") =>
      /\ \A pid \in Pids : read_result(files, pt, files_lock, pid) = hist.pre.reads[pid]
      /\ object_keys(pt) = object_keys(hist.pre.pt)
      /\ \A base \in DOMAIN hist.pre.files :
           (\E key \in object_keys(pt) :
              /\ locate(hist.pre.files, from_be_bytes(pt[key])) = base
              /\ entry_is_live(pt, hist.pre.files, hist.pre.disk, key))
             => hist.pre.files[base].path \in DOMAIN disk

\* C8: the heap file a write_batch publishes is registered with live equal
\* to its capacity, and every other file's live counter has dropped by the
\* number of ids of the batch whose previous index value pointed into it.
C8_LiveBookkeeping ==
  \A t \in Threads :
    (returned(t, "write_batch") /\ th[t].result.kind = "Ok") =>
      LET lsn == hist.reserved[Len(hist.reserved)].lsn
          superseded(base) ==
            { pid \in ids(th[t].pages) :
                /\ to_be_bytes(pid) \in DOMAIN hist.pre.pt
                /\ locate(hist.pre.files, from_be_bytes(hist.pre.pt[to_be_bytes(pid)])) = base }
      IN  /\ lsn \in DOMAIN files
          /\ files[lsn].capacity = Len(th[t].pages)
          /\ files[lsn].len = files[lsn].capacity
          /\ \A base \in DOMAIN hist.pre.files :
               /\ base \in DOMAIN files
               /\ files[base].len = hist.pre.files[base].len - Cardinality(superseded(base))

\* C9: when maintenance has returned, with no concurrent write, no registered
\* heap file is below the compaction threshold: the files that had live == 0
\* or were below it are gone from the registry and from the directory.
C9_NoFileBelowThreshold ==
  \A t \in Threads :
    (returned(t, "maintenance") /\ th[t].result.kind = "Ok") =>
      /\ \A base \in DOMAIN files : ~below_threshold(files[base])
      /\ \A base \in DOMAIN hist.pre.files :
           below_threshold(hist.pre.files[base]) =>
             /\ base \notin DOMAIN files
             /\ hist.pre.files[base].path \notin DOMAIN disk

\* C10: a maintenance call that directly follows one that returned Ok returns Ok and
\* leaves the heap files, the registry, the index and the next-LSN counter
\* as the first call left them.
C10_MaintenanceIdempotent ==
  \A t \in Threads :
    (returned(t, "maintenance") /\ hist.prev_maint.valid) =>
      /\ th[t].result.kind = "Ok"
      /\ hist.last_maint = hist.prev_maint

\* C11: a read that runs while maintenance is in progress returns what it
\* would have returned had it run alone at the moment it was called: the
\* same Ok result with the same bytes, whether or not maintenance has
\* unlinked the file in the meantime
C11_ReadDuringMaintenance ==
  \A t \in Threads :
    (returned(t, "read") /\ th[t].overlap /\ th[t].expect.kind = "Ok")
      => th[t].result = th[t].expect

\* a read that overlapped maintenance returned Ok after maintenance had
\* unlinked the file the page lives in
C11_Witness ==
  \E t \in Threads :
    /\ returned(t, "read") /\ th[t].overlap /\ th[t].result.kind = "Ok"
    /\ \E base \in DOMAIN files :
         /\ base = locate(files, from_be_bytes(pt[to_be_bytes(th[t].pid)]))
         /\ files[base].path \notin DOMAIN disk

\* C12: after a write_batch that returned an io error, read of every id
\* returns what it returned before the call
C12_FailedBatchInvisible ==
  \A t \in Threads :
    ( /\ returned(t, "write_batch") /\ th[t].result.kind = "Err"
      /\ hist.pre.valid /\ ~hist.pre.poisoned )
      => \A pid \in Pids : read_result(files, pt, files_lock, pid) = hist.pre.reads[pid]

\* C13: read of an id the index has no entry for returns NotFound to the
\* caller, without a panic, and leaves the index, the registry and the heap
\* files as they were
C13_MissingIdNotFound ==
  \A t \in Threads :
    ( /\ returned(t, "read") /\ hist.pre.valid /\ ~hist.pre.poisoned
      /\ Lsm_get(hist.pre.pt, to_be_bytes(th[t].pid)) = None )
      => /\ th[t].result.kind = "NotFound"
         /\ ~files_lock.poisoned
         /\ pt = hist.pre.pt /\ files = hist.pre.files /\ disk = hist.pre.disk

\* the record at file_offset carries the object id pid and a stored crc
\* that is the checksum of its length, id and payload (lines 257-268)
record_matches(file, file_offset, pid) ==
  LET header_buf == SubSeq(file, file_offset + 1, file_offset + HEADER_SZ)
      pid_buf == SubSeq(header_buf, 5, 12)
      len_buf == SubSeq(header_buf, 13, 20)
      page_buf == read_record(file, file_offset).page_buf
  IN  /\ SubSeq(header_buf, 1, 4) = crc32(len_buf \o pid_buf \o page_buf)
      /\ from_le_bytes(pid_buf) = pid

\* C14: a payload read returns comes from a record whose stored crc matches
\* its id, length and payload and whose object id is the requested id
C14_NoDamagedPayload ==
  \A t \in Threads :
    ( /\ returned(t, "read") /\ th[t].result.kind = "Ok"
      /\ hist.pre.valid /\ ~hist.pre.poisoned )
      => LET location == from_be_bytes(hist.pre.pt[to_be_bytes(th[t].pid)])
             base == locate(hist.pre.files, location)
         IN  record_matches(hist.pre.files[base].file, location - base, th[t].pid)

\* the heap files, the next-LSN counter, the registry and the index with its
\* watermark are as they were when the running (or last) call started
store_unchanged ==
  /\ disk = hist.pre.disk /\ next_file_lsn = hist.pre.next_file_lsn
  /\ files = hist.pre.files /\ pt = hist.pre.pt

\* C15: write_batch of an empty sequence of records is a no-op or is
\* rejected with InvalidArgument, also when maintenance calls it with
\* nothing to rewrite
C15_EmptyBatchNoOp ==
  \A t \in Threads :
    /\ ( /\ returned(t, "write_batch") /\ th[t].pages = <<>>
         /\ th[t].result.kind = "Ok" /\ hist.pre.valid )
         => store_unchanged
    /\ ( /\ th[t].pc = "m370" /\ th[t].pages = <<>> /\ hist.pre.valid )
         => store_unchanged

\* C16: the value stored under PT_LSN_KEY is the largest base LSN among the
\* batches the index has accepted (batches with records in them: the empty
\* batch is C15's matter)
C16_WatermarkIsLargestAccepted ==
  (hist.accepted # {} /\ \A i \in 1..Len(hist.reserved) : hist.reserved[i].size > 0)
    => recovered_pt_lsn(pt) = SetMax(hist.accepted)

\* the base LSN and the size of every heap file in directory d
survivors(d) ==
  { [lsn |-> hex_value(name[2]), size |-> Len(d[name])] :
      name \in { n \in DOMAIN d : ~ends_with_tmp(n) } }

\* C17: after recovery the next base-LSN counter is past
\* base_lsn + file_size of every surviving heap file, so that the first
\* batch after reopening gets a base LSN greater than every location inside
\* every surviving file (what setting the counter to the largest
\* base_lsn + file_size, plus 1, is for)
C17_NextLsnPastSurvivors ==
  recovered => \A f \in survivors(disk) : f.lsn + f.size < next_file_lsn + 1

\* C18: a base LSN or location range of a batch that published its heap
\* file before a crash (whatever became of the file) is not assigned to a
\* batch after recovery (batches with records in them)
C18_LocationsNeverReused ==
  \A i \in 1..Len(hist.reserved) : \A a \in hist.assigned :
    LET b == hist.reserved[i]
    IN  (a.size > 0 /\ b.size > 0) =>
          /\ a.lsn # b.lsn
          /\ a.lsn + a.size < b.lsn \/ b.lsn + b.size < a.lsn

\* C19: after maintenance returns, every entry of the registry refers to a
\* heap file that is still in the directory: the files whose paths it
\* deleted are no longer registered
C19_RegistryFilesOnDisk ==
  \A t \in Threads :
    (returned(t, "maintenance") /\ th[t].result.kind = "Ok" /\ ~hist.pre.poisoned)
      => \A base \in DOMAIN files : files[base].path \in DOMAIN disk

\* some threads wait on each other in a cycle
wait_cycle ==
  \E S \in SUBSET Threads \ {{}} : \A t \in S : \E u \in S : waits_for(t, u)

\* C20: no state is reachable in which threads wait on each other in a
\* cycle for the registry lock and the index lock, a thread that is not
\* inside a call holds no lock, and every call that has started eventually
\* returns (and so has released the locks it took)
C20_DeadlockFree ==
  /\ [](~wait_cycle)
  /\ [](\A t \in Threads : th[t].pc = "idle" => ~holds(t, files_lock) /\ ~holds(t, pt_lock))
  /\ \A t \in Threads : (th[t].pc # "idle") ~> (th[t].pc = "idle")

\* a read that holds the registry write lock waits for the index lock, which
\* a write_batch on another thread holds
C20_Witness ==
  \E t, u \in Threads :
    /\ t # u
    /\ th[t].pc = "r202" /\ files_lock.w = t
    /\ th[u].pc = "w326" /\ pt_lock.w = u /\ waits_for(t, u)

====
